---- MODULE Spec2Model ----
(***************************************************************************)
(* Model of transformer_courses/object_detection_DETR/models/detr_head.py: *)
(* MLP, MultiHeadAttentionMap, MaskHeadFPNConv and DETRHead.               *)
(*                                                                         *)
(* Tensors are records [shape, data] with data in row-major order, so that *)
(* reshape / flatten keep the data and transpose / tile / concat move it,  *)
(* exactly as the framework does.  Outputs of learned layers (Linear,      *)
(* Conv2D, GroupNorm) are uninterpreted terms: only their shape and what   *)
(* they were computed from is modelled.  The module-level name `paddle` is *)
(* taken to be bound.                                                      *)
(***************************************************************************)
EXTENDS Integers, Sequences, FiniteSets, TLC

VARIABLES mlp, attn, mh, head, gt

vars == <<mlp, attn, mh, head, gt>>

\* Value of a component that takes no part in the specification at hand.
Idle == [pc |-> "idle"]

(***************************************************************************)
(* Bounds of the model                                                     *)
(***************************************************************************)
MaxDim == 3
MaxLayers == 3
\* Largest batch size, query count, head count, height and width of the
\* attention map.
AttnMaxDim == 2
\* Largest hidden_dim of the attention map.
MaxHidden == 4
\* Largest number of attention logits whose numeric values are enumerated.
MaxNumel == 4
\* Largest number of entries dropout zeroes.
MaxDropped == 1
\* Largest context_dim of the mask head.
MaxContextDim == 24
\* Largest input_dim of the mask head.
MaxInputDim == 3
\* Longest list of FPN channel depths, and of FPN features.
MaxFpnLen == 5
\* Largest batch size and query count the mask head is called with.
MaskMaxDim == 2
\* Largest num_classes the detection head is constructed with.
MaxClasses == 2
\* Largest number of decoder layers, batch size and query count the
\* detection head is called with.
HeadMaxDim == 2
\* Longest backbone pyramid the detection head is called with.
MaxFeats == 5
\* Height and width of the padded canvas of a batch of ground-truth masks.
PadH == 2
PadW == 3
\* Largest number of images of a batch, and of annotated objects of an image.
MaxBatch == 2
MaxObjs == 2

(***************************************************************************)
(* Tensors                                                                 *)
(***************************************************************************)
Min(a, b) == IF a <= b THEN a ELSE b

RECURSIVE Prod(_)
Prod(s) == IF s = <<>> THEN 1 ELSE Head(s) * Prod(Tail(s))

\* Row-major stride of axis i (1-based) of a tensor of shape s.
RECURSIVE Stride(_, _)
Stride(s, i) == IF i >= Len(s) THEN 1 ELSE s[i + 1] * Stride(s, i + 1)

RECURSIVE RavelFrom(_, _, _)
RavelFrom(idx, s, i) ==
    IF i = 0 THEN 0 ELSE idx[i] + s[i] * RavelFrom(idx, s, i - 1)

\* 0-based flat offset of the 0-based multi-index idx (Horner's rule from
\* the leading axis).
Ravel(idx, s) == RavelFrom(idx, s, Len(s))

\* The tensor of shape s whose element at multi-index idx is elem(idx).
MkTensor(s, elem(_)) ==
    LET strides == [i \in 1..Len(s) |-> Stride(s, i)]
    IN  [shape |-> s,
         data |-> [f \in 1..Prod(s) |->
                     elem([i \in 1..Len(s) |-> ((f - 1) \div strides[i]) % s[i]])]]

At(t, idx) == t.data[Ravel(idx, t.shape) + 1]

\* The shape a reshape to s produces: one entry of s may be -1 and is inferred.
InferShape(t, s) ==
    LET known == Prod([i \in 1..Len(s) |-> IF s[i] = -1 THEN 1 ELSE s[i]])
    IN  [i \in 1..Len(s) |-> IF s[i] = -1 THEN Prod(t.shape) \div known ELSE s[i]]

\* reshape raises unless the element counts agree.
ReshapeOK(t, s) == Prod(InferShape(t, s)) = Prod(t.shape)

\* x.reshape(s): the row-major data is kept, only the shape changes.
Reshape(t, s) == [shape |-> InferShape(t, s), data |-> t.data]

\* x.transpose(perm), perm 0-based: axis i of the result is axis perm[i] of x.
Transpose(t, perm) ==
    LET n == Len(perm)
        src(idx) == [j \in 1..n |-> idx[CHOOSE i \in 1..n : perm[i] + 1 = j]]
    IN  MkTensor([i \in 1..n |-> t.shape[perm[i] + 1]],
                 LAMBDA idx : At(t, src(idx)))

\* x.flatten(start, stop), axes 0-based and inclusive.
Flatten(t, start, stop) ==
    Reshape(t, SubSeq(t.shape, 1, start)
               \o <<Prod(SubSeq(t.shape, start + 1, stop + 1))>>
               \o SubSeq(t.shape, stop + 2, Len(t.shape)))

\* x.tile(reps): x repeated reps[i] times along axis i, whole copies one
\* after the other.
Tile(t, reps) ==
    MkTensor([i \in 1..Len(reps) |-> t.shape[i] * reps[i]],
             LAMBDA idx : At(t, [i \in 1..Len(reps) |-> idx[i] % t.shape[i]]))

\* paddle.concat([a, b], 1)
Concat1(a, b) ==
    MkTensor([a.shape EXCEPT ![2] = a.shape[2] + b.shape[2]],
             LAMBDA idx : IF idx[2] < a.shape[2]
                          THEN At(a, idx)
                          ELSE At(b, [idx EXCEPT ![2] = idx[2] - a.shape[2]]))

\* paddle.bmm(a, b) of a [N, Q, c] and b [N, c, M]: element (n, q, m) is the
\* sum over j of a[n, q, j] * b[n, j, m], kept as the set of its products.
Bmm(a, b) ==
    MkTensor(<<a.shape[1], a.shape[2], b.shape[3]>>,
             LAMBDA idx : {<<At(a, <<idx[1], idx[2], j>>),
                             At(b, <<idx[1], j, idx[3]>>)>> :
                           j \in 0..(a.shape[3] - 1)})

(***************************************************************************)
(* MLP                                                                     *)
(***************************************************************************)
\* zip(a, b): pairs up to the shorter of the two.
Zip(a, b) == [i \in 1..Min(Len(a), Len(b)) |-> <<a[i], b[i]>>]

\* A faulty variant of MLPHidden: one hidden width too many.
MLPHiddenOneTooMany(hidden_dim, num_layers) == [i \in 1..num_layers |-> hidden_dim]

\* h = [hidden_dim] * (num_layers - 1)
MLPHidden(hidden_dim, num_layers) == [i \in 1..(num_layers - 1) |-> hidden_dim]

\* (in, out) of every nn.Linear of self.layers, in order.
MLPLayers(input_dim, hidden_dim, output_dim, num_layers) ==
    LET h == MLPHidden(hidden_dim, num_layers)
    IN  Zip(<<input_dim>> \o h, h \o <<output_dim>>)

\* The activation forward applies after layer i (0-based).
MLPActivation(i, num_layers) == IF i < num_layers - 1 THEN "relu" ELSE "none"

MLPConstruct(input_dim, hidden_dim, output_dim, num_layers) ==
    [pc |-> "constructed",
     input_dim |-> input_dim, hidden_dim |-> hidden_dim,
     output_dim |-> output_dim, num_layers |-> num_layers,
     layers |-> MLPLayers(input_dim, hidden_dim, output_dim, num_layers),
     i |-> 0, xdim |-> 0, acts |-> <<>>]

MLPInit ==
    \E input_dim \in 1..MaxDim, hidden_dim \in 1..MaxDim,
       output_dim \in 1..MaxDim, num_layers \in 1..MaxLayers :
        mlp = MLPConstruct(input_dim, hidden_dim, output_dim, num_layers)

\* forward(x) is entered with x of shape [..., input_dim].
MLPCall ==
    /\ mlp.pc = "constructed"
    /\ mlp' = [mlp EXCEPT !.pc = "forward", !.i = 0, !.xdim = mlp.input_dim,
                          !.acts = <<>>]
    /\ UNCHANGED <<attn, mh, head, gt>>

\* One iteration of the loop over self.layers.
MLPStep ==
    /\ mlp.pc = "forward"
    /\ mlp.i < Len(mlp.layers)
    /\ LET layer == mlp.layers[mlp.i + 1]
       IN  IF layer[1] # mlp.xdim
           THEN mlp' = [mlp EXCEPT !.pc = "shape_error"]
           ELSE mlp' = [mlp EXCEPT !.xdim = layer[2], !.i = mlp.i + 1,
                           !.acts = Append(mlp.acts,
                                           MLPActivation(mlp.i, mlp.num_layers))]
    /\ UNCHANGED <<attn, mh, head, gt>>

MLPReturn ==
    /\ mlp.pc = "forward"
    /\ mlp.i = Len(mlp.layers)
    /\ mlp' = [mlp EXCEPT !.pc = "done"]
    /\ UNCHANGED <<attn, mh, head, gt>>

InitMLP == MLPInit /\ attn = Idle /\ mh = Idle /\ head = Idle /\ gt = Idle

NextMLP == MLPCall \/ MLPStep \/ MLPReturn

SpecMLP == InitMLP /\ [][NextMLP]_vars

(***************************************************************************)
(* C7: exactly num_layers linear layers are built; their dimensions chain  *)
(* from input_dim through hidden_dim widths to output_dim; forward applies *)
(* ReLU after every layer but the last, none after the last, and returns   *)
(* a tensor whose last dimension is output_dim.                            *)
(***************************************************************************)
MLPShapeLaw ==
    mlp.pc # "idle" =>
        /\ Len(mlp.layers) = mlp.num_layers
        /\ mlp.layers[1][1] = mlp.input_dim
        /\ mlp.layers[mlp.num_layers][2] = mlp.output_dim
        /\ \A i \in 1..(mlp.num_layers - 1) :
              /\ mlp.layers[i][2] = mlp.hidden_dim
              /\ mlp.layers[i][2] = mlp.layers[i + 1][1]
        /\ mlp.pc # "shape_error"
        /\ mlp.pc = "done" =>
              /\ mlp.xdim = mlp.output_dim
              /\ Len(mlp.acts) = mlp.num_layers
              /\ mlp.acts[mlp.num_layers] = "none"
              /\ \A i \in 1..(mlp.num_layers - 1) : mlp.acts[i] = "relu"

\* A forward pass of a single-layer MLP (no hidden width at all) has returned.
MLPShapeLawWitness ==
    /\ mlp.pc = "done"
    /\ mlp.num_layers = 1
    /\ mlp.input_dim # mlp.output_dim
    /\ mlp.hidden_dim # mlp.output_dim

\* A forward pass through ReLU layers and a final linear layer has returned.
MLPDeepWitness ==
    /\ mlp.pc = "done"
    /\ mlp.num_layers >= 3
    /\ mlp.input_dim # mlp.hidden_dim
    /\ mlp.hidden_dim # mlp.output_dim

(***************************************************************************)
(* MultiHeadAttentionMap                                                   *)
(***************************************************************************)
None == "None"

\* Numeric logits are <<x>> with x an integer, or NegInf, the additive bias
\* of a padded position.
NegInf == <<>>

Fin(x) == <<x>>

\* Sample values of a logit.
Logits == {0, 1}

Add(a, m) == IF a = NegInf \/ m = NegInf THEN NegInf ELSE Fin(a[1] + m[1])

\* The exponential, to base 2 so that it stays an integer.
Exp(a) == IF a = NegInf THEN 0 ELSE 2 ^ a[1]

RECURSIVE SumSeq(_)
SumSeq(s) == IF s = <<>> THEN 0 ELSE Head(s) + SumSeq(Tail(s))

\* self.q_proj(q): [bs, num_queries, hidden_dim], one term per element.
QProj(bs, num_queries, hidden_dim) ==
    MkTensor(<<bs, num_queries, hidden_dim>>,
             LAMBDA idx : <<"q", idx[1], idx[2], idx[3]>>)

\* self.k_proj(k): [bs, hidden_dim, h, w], one term per element.
KProj(bs, hidden_dim, h, w) ==
    MkTensor(<<bs, hidden_dim, h, w>>,
             LAMBDA idx : <<"k", idx[1], idx[2], idx[3], idx[4]>>)

\* qh * self.normalize_fact
Scale(t) == [t EXCEPT !.data = [f \in DOMAIN t.data |-> <<"scaled", t.data[f]>>]]

\* A faulty variant of HeadsIntoBatchQ: the heads are not moved next to the batch axis.
HeadsIntoBatchQNoTranspose(qh, num_queries, c) == Reshape(qh, <<-1, num_queries, c>>)

\* qh.transpose([0, 2, 1, 3]).reshape([-1, num_queries, c])
HeadsIntoBatchQ(qh, num_queries, c) ==
    Reshape(Transpose(qh, <<0, 2, 1, 3>>), <<-1, num_queries, c>>)

\* kh.reshape([-1, c, h * w])
HeadsIntoBatchK(kh, c, h, w) == Reshape(kh, <<-1, c, h * w>>)

\* paddle.bmm(qh * normalize_fact, kh).reshape([bs, n, num_queries, h, w])
\*       .transpose([0, 2, 1, 3, 4])
BmmLogits(qh, kh, bs, n, num_queries, h, w) ==
    Transpose(Reshape(Bmm(Scale(qh), kh), <<bs, n, num_queries, h, w>>),
              <<0, 2, 1, 3, 4>>)

\* weights += mask, the mask broadcast along its axes of extent 1.
AddMask(weights, mask) ==
    MkTensor(weights.shape,
             LAMBDA idx : Add(At(weights, idx),
                              At(mask, [i \in 1..Len(idx) |->
                                          IF mask.shape[i] = 1 THEN 0 ELSE idx[i]])))

\* F.softmax(x, axis=-1): <<numerator, denominator>> of every weight.
SoftmaxLast(t) ==
    LET r == Len(t.shape)
    IN  MkTensor(t.shape,
                 LAMBDA idx :
                    <<Exp(At(t, idx)),
                      SumSeq([j \in 1..t.shape[r] |->
                                 Exp(At(t, [idx EXCEPT ![r] = j - 1]))])>>)

\* A faulty variant of SoftmaxSpatial: the heads are flattened into the softmax axis too.
SoftmaxOverHeads(weights) ==
    Reshape(SoftmaxLast(Flatten(weights, 2, 4)), weights.shape)

\* F.softmax(weights.flatten(3), axis=-1).reshape(weights.shape)
SoftmaxSpatial(weights) ==
    Reshape(SoftmaxLast(Flatten(weights, 3, 4)), weights.shape)

\* The spatial masks [bs, 1, 1, h, w]: every image has a valid top-left
\* region of at least one row and one column; the rest is padding.
SrcMasks(bs, h, w) ==
    {MkTensor(<<bs, 1, 1, h, w>>,
              LAMBDA idx : IF idx[4] < v[idx[1]][1] /\ idx[5] < v[idx[1]][2]
                           THEN Fin(0) ELSE NegInf) :
        v \in [0..(bs - 1) -> (1..h) \X (1..w)]}

\* self.dropout(weights): the entries of `dropped` are zeroed.
Dropout(weights, dropped) ==
    [weights EXCEPT !.data = [f \in DOMAIN weights.data |->
                                 IF f \in dropped THEN <<0, 1>> ELSE weights.data[f]]]

\* A constructed module, called with q [bs, num_queries, query_dim] and
\* k [bs, query_dim, h, w].
AttnInit ==
    \E num_heads \in 1..AttnMaxDim, hidden_dim \in 1..MaxHidden,
       bs \in 1..AttnMaxDim, num_queries \in 1..AttnMaxDim,
       h \in 1..AttnMaxDim, w \in 1..AttnMaxDim :
        attn = [pc |-> "called", num_heads |-> num_heads,
                hidden_dim |-> hidden_dim, bs |-> bs,
                num_queries |-> num_queries, h |-> h, w |-> w,
                c |-> hidden_dim \div num_heads,
                q |-> None, k |-> None, qh |-> None, kh |-> None,
                weights |-> None, has_mask |-> FALSE, logits |-> None,
                probs |-> None, out |-> None]

\* q = self.q_proj(q); k = self.k_proj(k)
AttnProject ==
    /\ attn.pc = "called"
    /\ attn' = [attn EXCEPT !.pc = "projected",
                   !.q = QProj(attn.bs, attn.num_queries, attn.hidden_dim),
                   !.k = KProj(attn.bs, attn.hidden_dim, attn.h, attn.w)]
    /\ UNCHANGED <<mlp, mh, head, gt>>

\* qh = q.reshape([bs, num_queries, n, c]); kh = k.reshape([bs, n, c, h, w])
AttnSplitHeads ==
    /\ attn.pc = "projected"
    /\ LET qs == <<attn.bs, attn.num_queries, attn.num_heads, attn.c>>
           ks == <<attn.bs, attn.num_heads, attn.c, attn.h, attn.w>>
       IN  IF ReshapeOK(attn.q, qs) /\ ReshapeOK(attn.k, ks)
           THEN attn' = [attn EXCEPT !.pc = "split",
                            !.qh = Reshape(attn.q, qs), !.kh = Reshape(attn.k, ks)]
           ELSE attn' = [attn EXCEPT !.pc = "shape_error"]
    /\ UNCHANGED <<mlp, mh, head, gt>>

\* The heads go into the batch axis.
AttnHeadsIntoBatch ==
    /\ attn.pc = "split"
    /\ attn' = [attn EXCEPT !.pc = "batched",
                   !.qh = HeadsIntoBatchQ(attn.qh, attn.num_queries, attn.c),
                   !.kh = HeadsIntoBatchK(attn.kh, attn.c, attn.h, attn.w)]
    /\ UNCHANGED <<mlp, mh, head, gt>>

\* The batched matrix multiply and the way back to [bs, Q, n, h, w].
AttnBmm ==
    /\ attn.pc = "batched"
    /\ attn' = [attn EXCEPT !.pc = "logits",
                   !.weights = BmmLogits(attn.qh, attn.kh, attn.bs, attn.num_heads,
                                         attn.num_queries, attn.h, attn.w)]
    /\ UNCHANGED <<mlp, mh, head, gt>>

\* if mask is not None: weights += mask
MaskedLogits(weights, has_mask, mask) ==
    IF has_mask THEN AddMask(weights, mask) ELSE weights

\* The optional mask and the softmax, on the numeric values val of the logits.
AttnSoftmax ==
    /\ attn.pc = "logits"
    /\ Prod(attn.weights.shape) <= MaxNumel
    /\ \E val \in [DOMAIN attn.weights.data -> Logits],
          mask \in SrcMasks(attn.bs, attn.h, attn.w), has_mask \in BOOLEAN :
          LET w0 == [shape |-> attn.weights.shape,
                     data |-> [f \in DOMAIN val |-> Fin(val[f])]]
              w1 == MaskedLogits(w0, has_mask, mask)
          IN  attn' = [attn EXCEPT !.pc = "softmax", !.has_mask = has_mask,
                          !.logits = w1, !.probs = SoftmaxSpatial(w1)]
    /\ UNCHANGED <<mlp, mh, head, gt>>

\* weights = self.dropout(weights); return weights
AttnDropout ==
    /\ attn.pc = "softmax"
    /\ \E dropped \in SUBSET (DOMAIN attn.probs.data) :
          /\ Cardinality(dropped) <= MaxDropped
          /\ attn' = [attn EXCEPT !.pc = "done",
                         !.out = Dropout(attn.probs, dropped)]
    /\ UNCHANGED <<mlp, mh, head, gt>>

InitAttn == AttnInit /\ mlp = Idle /\ mh = Idle /\ head = Idle /\ gt = Idle

NextAttn ==
    \/ AttnProject
    \/ AttnSplitHeads
    \/ AttnHeadsIntoBatch
    \/ AttnBmm
    \/ AttnSoftmax
    \/ AttnDropout

SpecAttn == InitAttn /\ [][NextAttn]_vars

AttnHasLogits == attn.pc \in {"logits", "softmax", "done"}

AttnHasProbs == attn.pc \in {"softmax", "done"}

SpatialRow(b, q, n) ==
    [p \in 1..(attn.h * attn.w) |->
        At(attn.probs, <<b, q, n, (p - 1) \div attn.w, (p - 1) % attn.w>>)]

AttnUnmaskedWitness ==
    /\ attn.pc = "done"
    /\ attn.num_heads >= 2 /\ attn.h * attn.w >= 2
    /\ ~attn.has_mask
    /\ \E f, g \in DOMAIN attn.probs.data :
          attn.probs.data[f][1] # attn.probs.data[g][1]

(***************************************************************************)
(* MaskHeadFPNConv                                                         *)
(***************************************************************************)
\* A faulty variant of InterDims: the halving starts at context_dim itself.
InterDimsFromContextDim(input_dim, context_dim) ==
    <<input_dim>> \o [i \in 1..4 |-> context_dim \div (2 ^ (i - 1))]

\* inter_dims = [input_dim] + [context_dim // (2**i) for i in range(1, 5)]
InterDims(input_dim, context_dim) ==
    <<input_dim>> \o [i \in 1..4 |-> context_dim \div (2 ^ i)]

\* (in, out) of the blocks of self.conv_inter:
\* zip(inter_dims[:-1], inter_dims[1:])
ConvInter(inter_dims) ==
    Zip(SubSeq(inter_dims, 1, Len(inter_dims) - 1), Tail(inter_dims))

\* (in, out) of self.conv_out
ConvOut(inter_dims) == <<inter_dims[Len(inter_dims)], 1>>

\* inter_dims[i + 1] raises IndexError for i + 1 >= len(inter_dims).
AdapterIndexError(fpn_dims, inter_dims) == Len(fpn_dims) >= Len(inter_dims)

\* (in, out) of the 1x1 convolutions of self.adapter.
Adapter(fpn_dims, inter_dims) ==
    [i \in 1..Len(fpn_dims) |-> <<fpn_dims[i], inter_dims[i + 1]>>]

\* Channel depth of the FPN level at position i of a pyramid.
FpnChannels(i) == 2 ^ (MaxFpnLen - i)

\* x: the projected memory [bs, channels, H, W], one term per element.
MemoryMap(bs, channels) ==
    MkTensor(<<bs, channels, 1, 1>>, LAMBDA idx : <<"mem", idx[1], idx[2]>>)

\* bbox_attention_map [bs, num_queries, heads, H, W], one term per element.
AttentionMap(bs, num_queries, heads) ==
    MkTensor(<<bs, num_queries, heads, 1, 1>>,
             LAMBDA idx : <<"attn", idx[1], idx[2], idx[3]>>)

\* adapter_layer(feat) of the feature at position j: [bs, out, H_j, W_j],
\* one term per image.
AdaptedFeat(level, bs) ==
    MkTensor(<<bs, 1, 1, 1>>, LAMBDA idx : <<"fpn", level, idx[1]>>)

\* paddle.concat([x.tile([Q, 1, 1, 1]), bbox_attention_map.flatten(0, 1)], 1)
TileAndConcat(x, bbox_attention_map) ==
    Concat1(Tile(x, <<bbox_attention_map.shape[2], 1, 1, 1>>),
            Flatten(bbox_attention_map, 0, 1))

\* adapter_layer(feat).tile([bbox_attention_map.shape[1], 1, 1, 1])
TileFeat(feat, num_queries) == Tile(feat, <<num_queries, 1, 1, 1>>)

\* What an element stands for: the memory of an image, the attention of a
\* query of an image, or an FPN level of an image.
Dep(e) ==
    IF e[1] = "attn" THEN <<"attn", e[2], e[3]>>
    ELSE IF e[1] = "mem" THEN <<"mem", e[2]>>
    ELSE e

\* What row r (0-based) of a [rows, channels, 1, 1] tensor is computed from.
RowDeps(t, r) == {Dep(At(t, <<r, ch, 0, 0>>)) : ch \in 0..(t.shape[2] - 1)}

\* The number of fusion stages the zip of forward runs.
FusionStages(conv_inter, adapter, fpns) ==
    Min(Len(conv_inter) - 1, Min(Len(adapter), Len(fpns)))

\* The context dimensions that give every convolution at least one channel.
ContextDims == {cd \in 1..MaxContextDim : \A d \in 1..5 : InterDims(1, cd)[d] >= 1}

\* The arguments of a construction.
MaskNew ==
    \E input_dim \in 2..MaxInputDim, context_dim \in ContextDims,
       n \in 0..MaxFpnLen :
        mh = [pc |-> "new", input_dim |-> input_dim, context_dim |-> context_dim,
              fpn_dims |-> [i \in 1..n |-> FpnChannels(i)],
              inter_dims |-> <<>>, conv0 |-> <<>>, conv_inter |-> <<>>,
              conv_out |-> <<>>, adapter |-> <<>>,
              bs |-> 0, num_queries |-> 0, fpns |-> <<>>,
              cat |-> None, rows |-> <<>>, channels |-> 0, size |-> 0, j |-> 0,
              seg |-> <<>>]

\* MaskHeadFPNConv.__init__
MaskConstruct ==
    /\ mh.pc = "new"
    /\ LET inter_dims == InterDims(mh.input_dim, mh.context_dim)
       IN  IF AdapterIndexError(mh.fpn_dims, inter_dims)
           THEN mh' = [mh EXCEPT !.pc = "IndexError"]
           ELSE mh' = [mh EXCEPT !.pc = "constructed",
                          !.inter_dims = inter_dims,
                          !.conv0 = <<mh.input_dim, mh.input_dim>>,
                          !.conv_inter = ConvInter(inter_dims),
                          !.conv_out = ConvOut(inter_dims),
                          !.adapter = Adapter(mh.fpn_dims, inter_dims)]
    /\ UNCHANGED <<mlp, attn, head, gt>>

\* forward(x, bbox_attention_map, fpns) up to the concatenation.  The feature
\* at position i of fpns has FpnChannels(i) channels and spatial size i.
MaskConcat ==
    /\ mh.pc = "constructed"
    /\ \E bs \in 1..MaskMaxDim, num_queries \in 1..MaskMaxDim,
          heads \in 1..(mh.input_dim - 1), m \in 0..MaxFpnLen :
          mh' = [mh EXCEPT !.pc = "concat", !.bs = bs,
                    !.num_queries = num_queries,
                    !.fpns = [i \in 1..m |-> [level |-> i,
                                              channels |-> FpnChannels(i),
                                              size |-> i]],
                    !.cat = TileAndConcat(MemoryMap(bs, mh.input_dim - heads),
                                          AttentionMap(bs, num_queries, heads))]
    /\ UNCHANGED <<mlp, attn, head, gt>>

\* x = self.conv0(x)
MaskConv0 ==
    /\ mh.pc = "concat"
    /\ IF mh.cat.shape[2] # mh.conv0[1]
       THEN mh' = [mh EXCEPT !.pc = "shape_error"]
       ELSE mh' = [mh EXCEPT !.pc = "loop", !.j = 0,
                      !.rows = [r \in 1..mh.cat.shape[1] |-> RowDeps(mh.cat, r - 1)],
                      !.channels = mh.conv0[2], !.size = 0]
    /\ UNCHANGED <<mlp, attn, head, gt>>

\* One iteration of the loop over zip(self.conv_inter[:-1], self.adapter, fpns).
MaskFuse ==
    /\ mh.pc = "loop"
    /\ mh.j < FusionStages(mh.conv_inter, mh.adapter, mh.fpns)
    /\ LET inter_layer == mh.conv_inter[mh.j + 1]
           adapter_layer == mh.adapter[mh.j + 1]
           fpn == mh.fpns[mh.j + 1]
           feat == TileFeat(AdaptedFeat(fpn.level, mh.bs), mh.num_queries)
       IN  IF \/ adapter_layer[1] # fpn.channels
              \/ inter_layer[1] # mh.channels
              \/ adapter_layer[2] # inter_layer[2]
              \/ feat.shape[1] # Len(mh.rows)
           THEN mh' = [mh EXCEPT !.pc = "shape_error"]
           ELSE mh' = [mh EXCEPT !.j = mh.j + 1,
                          !.rows = [r \in DOMAIN mh.rows |->
                                       mh.rows[r] \cup RowDeps(feat, r - 1)],
                          !.channels = inter_layer[2], !.size = fpn.size]
    /\ UNCHANGED <<mlp, attn, head, gt>>

\* x = self.conv_inter[-1](x); x = self.conv_out(x); return x
MaskOut ==
    /\ mh.pc = "loop"
    /\ mh.j = FusionStages(mh.conv_inter, mh.adapter, mh.fpns)
    /\ LET last == mh.conv_inter[Len(mh.conv_inter)]
       IN  IF last[1] # mh.channels \/ mh.conv_out[1] # last[2]
           THEN mh' = [mh EXCEPT !.pc = "shape_error"]
           ELSE mh' = [mh EXCEPT !.pc = "returned", !.channels = mh.conv_out[2]]
    /\ UNCHANGED <<mlp, attn, head, gt>>

\* DETRHead.forward: outputs_seg.reshape([bs, num_queries, H_out, W_out]);
\* entry (b, q) of seg is row b * num_queries + q.
MaskReshape ==
    /\ mh.pc = "returned"
    /\ mh' = [mh EXCEPT !.pc = "done",
                 !.seg = [b \in 1..mh.bs |->
                            [q \in 1..mh.num_queries |->
                                mh.rows[(b - 1) * mh.num_queries + q]]]]
    /\ UNCHANGED <<mlp, attn, head, gt>>

InitMask == MaskNew /\ mlp = Idle /\ attn = Idle /\ head = Idle /\ gt = Idle

NextMask ==
    \/ MaskConstruct
    \/ MaskConcat
    \/ MaskConv0
    \/ MaskFuse
    \/ MaskOut
    \/ MaskReshape

SpecMask == InitMask /\ [][NextMask]_vars

MaskBuilt == mh.pc \notin {"idle", "new", "IndexError"}

MaskCalled == MaskBuilt /\ mh.pc # "constructed"

\* What entry (b, q) of the mask output is to be computed from after `fused`
\* fusion stages: image b's memory, query (b, q)'s attention and image b's
\* FPN features.
OwnDeps(b, q, fused) ==
    {<<"mem", b>>, <<"attn", b, q>>} \cup {<<"fpn", j, b>> : j \in 1..fused}

(***************************************************************************)
(* C2: every query is paired with its own image: the row of the            *)
(* concatenated tensor that carries the attention map of (b, q) carries    *)
(* the memory of image b, and after the reshape entry (b, q) of the mask   *)
(* output depends only on image b's memory and FPN features and on the     *)
(* attention of query (b, q).                                              *)
(***************************************************************************)
MaskPairsQueryWithOwnImage ==
    /\ MaskCalled =>
          \A b \in 0..(mh.bs - 1), q \in 0..(mh.num_queries - 1) :
             RowDeps(mh.cat, b * mh.num_queries + q) = OwnDeps(b, q, 0)
    /\ mh.pc = "done" =>
          \A b \in 0..(mh.bs - 1), q \in 0..(mh.num_queries - 1) :
             mh.seg[b + 1][q + 1] = OwnDeps(b, q, mh.j)

(***************************************************************************)
(* C5: a pyramid whose length is not the number of intermediate stages     *)
(* minus one is rejected when the module is constructed: no module is      *)
(* built from such a list of channel depths, forward never pairs stages,   *)
(* adapters and features over a shorter range than all of them, and        *)
(* forward never fails later on.                                           *)
(***************************************************************************)
MaskLengthMismatchRejected ==
    /\ MaskBuilt => Len(mh.fpn_dims) = Len(mh.conv_inter) - 1
    /\ MaskCalled =>
          /\ Len(mh.fpns) = Len(mh.conv_inter) - 1
          /\ FusionStages(mh.conv_inter, mh.adapter, mh.fpns) = Len(mh.fpns)
    /\ mh.pc # "shape_error"

DefaultHiddenDim == 256

DefaultNHead == 8

DefaultNumMlpLayers == 3

DefaultFpnDims == <<1024, 512, 256>>

\* A tensor seen from the detection head: its shape and the decoder layers
\* its values were computed from.
HeadTensor(shape, layers) == [shape |-> shape, layers |-> layers]

\* outputs_seg = None
NoTensor == HeadTensor(<<>>, {})

\* self.num_classes = num_classes if use_focal_loss else num_classes + 1
NumClasses(num_classes, use_focal_loss) ==
    IF use_focal_loss THEN num_classes ELSE num_classes + 1

\* A faulty variant of IndexLast: the first decoder layer is returned.
IndexFirst(t) == HeadTensor(Tail(t.shape), {0})

\* t[-1] along the leading (decoder layer) axis.
IndexLast(t) == HeadTensor(Tail(t.shape), {t.shape[1] - 1})

\* s[::-1]
Reverse(s) == [i \in 1..Len(s) |-> s[Len(s) + 1 - i]]

\* s[1:]
DropFirst(s) == SubSeq(s, 2, Len(s))

\* A faulty variant of FpnFeats: the first level is dropped before the reversal.
FpnFeatsDropFinest(body_feats) == Reverse(DropFirst(body_feats))

\* fpn_feats = [a for a in body_feats[::-1]][1:]
FpnFeats(body_feats) == DropFirst(Reverse(body_feats))

\* The keys of the supervision dictionary.
InputKeys == {"gt_bbox", "gt_class", "gt_poly", "pad_mask"}

\* inputs: not given (None), or a dictionary with some of the keys.
Inputs == {[given |-> FALSE, keys |-> {}]}
          \cup {[given |-> TRUE, keys |-> ks] : ks \in SUBSET InputKeys}

\* A constructed head: score head, box head and, with the mask branch, the
\* attention map and the mask head.
HeadInit ==
    \E num_classes \in 1..MaxClasses, use_focal_loss \in BOOLEAN,
       with_mask_head \in BOOLEAN, training \in BOOLEAN :
        LET inter_dims == InterDims(DefaultHiddenDim + DefaultNHead, DefaultHiddenDim)
        IN  head = [pc |-> "constructed",
                    num_classes_arg |-> num_classes,
                    num_classes |-> NumClasses(num_classes, use_focal_loss),
                    hidden_dim |-> DefaultHiddenDim,
                    use_focal_loss |-> use_focal_loss,
                    with_mask_head |-> with_mask_head,
                    training |-> training,
                    score_head |-> <<DefaultHiddenDim,
                                     NumClasses(num_classes, use_focal_loss)>>,
                    bbox_head |-> MLPLayers(DefaultHiddenDim, DefaultHiddenDim, 4,
                                            DefaultNumMlpLayers),
                    conv0 |-> <<inter_dims[1], inter_dims[1]>>,
                    conv_inter |-> ConvInter(inter_dims),
                    adapter |-> Adapter(DefaultFpnDims, inter_dims),
                    feats |-> <<>>, body_feats |-> <<>>,
                    inputs |-> [given |-> FALSE, keys |-> {}],
                    outputs_logit |-> NoTensor, outputs_bbox |-> NoTensor,
                    outputs_seg |-> NoTensor, fpn_feats |-> <<>>,
                    trace |-> <<>>, result |-> <<>>]

\* forward(out_transformer, body_feats, inputs) is entered: feats is
\* [layers, bs, num_queries, hidden_dim], body_feats are the levels 0 .. n-1,
\* level i of spatial size n - i (level 0 is the finest).
HeadCall ==
    /\ head.pc = "constructed"
    /\ \E layers \in 1..HeadMaxDim, bs \in 1..HeadMaxDim,
          num_queries \in 1..HeadMaxDim, n \in 0..MaxFeats, inputs \in Inputs :
          head' = [head EXCEPT !.pc = "called",
                      !.feats = <<layers, bs, num_queries, head.hidden_dim>>,
                      !.body_feats = [i \in 1..n |-> [level |-> i - 1, size |-> n + 1 - i]],
                      !.inputs = inputs]
    /\ UNCHANGED <<mlp, attn, mh, gt>>

\* The last dimension a chain of linear layers gives an input of last
\* dimension d; 0 when a layer does not fit.
RECURSIVE LinearChain(_, _)
LinearChain(layers, d) ==
    IF layers = <<>> THEN d
    ELSE IF Head(layers)[1] # d THEN 0
    ELSE LinearChain(Tail(layers), Head(layers)[2])

\* outputs_logit = self.score_head(feats)
\* outputs_bbox = F.sigmoid(self.bbox_head(feats))
HeadScores ==
    /\ head.pc = "called"
    /\ LET lead == SubSeq(head.feats, 1, 3)
           all == 0..(head.feats[1] - 1)
       IN  head' = [head EXCEPT !.pc = "scored",
                       !.outputs_logit =
                           HeadTensor(lead \o <<LinearChain(<<head.score_head>>,
                                                            head.feats[4])>>, all),
                       !.outputs_bbox =
                           HeadTensor(lead \o <<LinearChain(head.bbox_head,
                                                            head.feats[4])>>, all),
                       !.trace = head.trace \o <<"score_head", "bbox_head">>]
    /\ UNCHANGED <<mlp, attn, mh, gt>>

\* The mask branch is off: outputs_seg stays None.
HeadNoMask ==
    /\ head.pc = "scored"
    /\ ~head.with_mask_head
    /\ head' = [head EXCEPT !.pc = "masked", !.outputs_seg = NoTensor]
    /\ UNCHANGED <<mlp, attn, mh, gt>>

\* bbox_attention_map = self.bbox_attention(feats[-1], memory, src_mask)
\* fpn_feats = [a for a in body_feats[::-1]][1:]
HeadAttention ==
    /\ head.pc = "scored"
    /\ head.with_mask_head
    /\ head' = [head EXCEPT !.pc = "attended",
                   !.fpn_feats = FpnFeats(head.body_feats),
                   !.trace = Append(head.trace, "bbox_attention")]
    /\ UNCHANGED <<mlp, attn, mh, gt>>

\* The channel depth of the running tensor of the mask head after k fusion
\* stages.
ChannelsAfter(conv0, conv_inter, k) == IF k = 0 THEN conv0[2] ELSE conv_inter[k][2]

\* outputs_seg = self.mask_head(src_proj, bbox_attention_map, fpn_feats),
\* reshaped to [bs, num_queries, H_out, W_out].
HeadMaskHead ==
    /\ head.pc = "attended"
    /\ LET k == FusionStages(head.conv_inter, head.adapter, head.fpn_feats)
           last == head.conv_inter[Len(head.conv_inter)]
       IN  IF last[1] # ChannelsAfter(head.conv0, head.conv_inter, k)
           THEN head' = [head EXCEPT !.pc = "shape_error",
                            !.trace = Append(head.trace, "mask_head")]
           ELSE head' = [head EXCEPT !.pc = "masked",
                            !.trace = Append(head.trace, "mask_head"),
                            !.outputs_seg =
                                HeadTensor(<<head.feats[2], head.feats[3],
                                             head.fpn_feats[k].size,
                                             head.fpn_feats[k].size>>,
                                           {head.feats[1] - 1})]
    /\ UNCHANGED <<mlp, attn, mh, gt>>

\* if self.training: the two assertions, the rasterization of the polygons
\* when there are any, and the loss.
HeadTrain ==
    /\ head.pc = "masked"
    /\ head.training
    /\ IF ~head.inputs.given \/ ~({"gt_bbox", "gt_class"} \subseteq head.inputs.keys)
       THEN head' = [head EXCEPT !.pc = "AssertionError"]
       ELSE IF "gt_poly" \in head.inputs.keys /\ "pad_mask" \notin head.inputs.keys
       THEN head' = [head EXCEPT !.pc = "KeyError"]
       ELSE head' = [head EXCEPT !.pc = "returned",
                        !.trace = head.trace
                                  \o (IF "gt_poly" \in head.inputs.keys
                                      THEN <<"get_gt_mask_from_polygons">> ELSE <<>>)
                                  \o <<"loss">>,
                        !.result = <<"loss", head.outputs_bbox, head.outputs_logit,
                                     head.outputs_seg, "gt_poly" \in head.inputs.keys>>]
    /\ UNCHANGED <<mlp, attn, mh, gt>>

\* else: return (outputs_bbox[-1], outputs_logit[-1], outputs_seg)
HeadInfer ==
    /\ head.pc = "masked"
    /\ ~head.training
    /\ head' = [head EXCEPT !.pc = "returned",
                   !.result = <<IndexLast(head.outputs_bbox),
                                IndexLast(head.outputs_logit), head.outputs_seg>>]
    /\ UNCHANGED <<mlp, attn, mh, gt>>

InitHead == HeadInit /\ mlp = Idle /\ attn = Idle /\ mh = Idle /\ gt = Idle

NextHead ==
    \/ HeadCall
    \/ HeadScores
    \/ HeadNoMask
    \/ HeadAttention
    \/ HeadMaskHead
    \/ HeadTrain
    \/ HeadInfer

SpecHead == InitHead /\ [][NextHead]_vars

\* The call has ended, by a return or by an exception.
HeadEnded == head.pc \in {"returned", "AssertionError", "KeyError", "shape_error"}

\* The supervision the training mode asserts is missing.
HeadSupervisionMissing ==
    ~head.inputs.given \/ ~({"gt_bbox", "gt_class"} \subseteq head.inputs.keys)

(***************************************************************************)
(* C1: in training mode a call whose inputs are missing, or lack gt_bbox   *)
(* or gt_class, ends in the assertion failure, and the assertion fails     *)
(* before any computation of the call (score head, box head, attention     *)
(* map, mask head) has run.                                                *)
(***************************************************************************)
HeadAssertsBeforeCompute ==
    /\ (HeadEnded /\ head.training /\ HeadSupervisionMissing) =>
          head.pc = "AssertionError"
    /\ head.pc = "AssertionError" => head.trace = <<>>

HeadInferenceNoMaskWitness ==
    /\ head.pc = "returned"
    /\ ~head.training
    /\ head.feats[1] >= 2
    /\ ~head.with_mask_head
    /\ head.use_focal_loss

(***************************************************************************)
(* DETRHead.get_gt_mask_from_polygons                                      *)
(***************************************************************************)
\* The zero of paddle.zeros, as a term.
Zero == <<"zero">>

\* One item of pad_mask [bs, PadH, PadW], the padding mask of an image: 1 on
\* its valid top-left rows x cols region, 0 on the padding.
PadMask(rows, cols) ==
    MkTensor(<<PadH, PadW>>,
             LAMBDA idx : IF idx[1] < rows /\ idx[2] < cols THEN 1 ELSE 0)

\* height, width = int(padding[:, 0].sum()), int(padding[0, :].sum())
PaddingExtent(padding) ==
    <<SumSeq([r \in 1..padding.shape[1] |-> At(padding, <<r - 1, 0>>)]),
      SumSeq([c \in 1..padding.shape[2] |-> At(padding, <<0, c - 1>>)])>>

\* mask_util.decode(mask_util.merge(mask_util.frPyObjects(obj_poly, height,
\* width))): a [height, width] raster, one term per pixel.
Rasterize(i, obj, height, width) ==
    MkTensor(<<height, width>>, LAMBDA idx : <<"px", i, obj, idx[1], idx[2]>>)

\* paddle.stack(masks) of n rasters [height, width]
Stack(masks, height, width) ==
    MkTensor(<<Len(masks), height, width>>,
             LAMBDA idx : At(masks[idx[1] + 1], <<idx[2], idx[3]>>))

\* A faulty variant of PasteTopLeft: the canvas is not zero-initialized outside the
\* pasted region but repeats the masks.
PasteWrapped(masks, canvas_h, canvas_w) ==
    MkTensor(<<masks.shape[1], canvas_h, canvas_w>>,
             LAMBDA idx : At(masks, <<idx[1], idx[2] % masks.shape[2],
                                      idx[3] % masks.shape[3]>>))

\* masks_pad = paddle.zeros([n, canvas_h, canvas_w])
\* masks_pad[:, :height, :width] = masks
PasteTopLeft(masks, canvas_h, canvas_w) ==
    MkTensor(<<masks.shape[1], canvas_h, canvas_w>>,
             LAMBDA idx : IF idx[2] < masks.shape[2] /\ idx[3] < masks.shape[3]
                          THEN At(masks, idx) ELSE Zero)

\* A call on a batch of bs images. gt_poly and pad_mask hold the items of the
\* two arguments that the loop has iterated over so far: gt_poly[i] is the
\* number of annotated objects of image i, pad_mask[i] its padding mask.
GtInit ==
    \E bs \in 1..MaxBatch :
       gt = [pc |-> "loop", bs |-> bs, gt_poly |-> <<>>, pad_mask |-> <<>>,
             out_gt_mask |-> <<>>]

\* One iteration of the loop over zip(gt_poly, pad_mask), on the next image
\* of the batch. Each local of the loop body is bound once, in the order the
\* code assigns it.
GtRasterize ==
    /\ gt.pc = "loop"
    /\ Len(gt.gt_poly) < gt.bs
    /\ \E polygons \in 0..MaxObjs, rows \in 1..PadH, cols \in 1..PadW :
       \E padding \in {PadMask(rows, cols)} :
       \E extent \in {PaddingExtent(padding)} :
          LET i == Len(gt.gt_poly)
              height == extent[1]
              width == extent[2]
              masks == [obj \in 1..polygons |->
                           Rasterize(i, obj - 1, height, width)]
              seen == [gt EXCEPT !.gt_poly = Append(gt.gt_poly, polygons),
                                 !.pad_mask = Append(gt.pad_mask, padding)]
          IN  IF masks = <<>>
              THEN gt' = [seen EXCEPT !.pc = "stack_error"]
              ELSE gt' = [seen EXCEPT !.out_gt_mask =
                              Append(gt.out_gt_mask,
                                     PasteTopLeft(Stack(masks, height, width),
                                                  padding.shape[1],
                                                  padding.shape[2]))]
    /\ UNCHANGED <<mlp, attn, mh, head>>

\* return out_gt_mask
GtReturn ==
    /\ gt.pc = "loop"
    /\ Len(gt.gt_poly) = gt.bs
    /\ gt' = [gt EXCEPT !.pc = "returned"]
    /\ UNCHANGED <<mlp, attn, mh, head>>

InitGt == GtInit /\ mlp = Idle /\ attn = Idle /\ mh = Idle /\ head = Idle

NextGt == GtRasterize \/ GtReturn

SpecGt == InitGt /\ [][NextGt]_vars

\* The number of valid rows and of valid columns of image i (0-based): the
\* marginal sums of its own padding mask.
ValidRows(i) ==
    Cardinality({r \in 0..(PadH - 1) : At(gt.pad_mask[i + 1], <<r, 0>>) = 1})

ValidCols(i) ==
    Cardinality({c \in 0..(PadW - 1) : At(gt.pad_mask[i + 1], <<0, c>>) = 1})

====
